---- MODULE Spec2Model ----
(***************************************************************************)
(* Model of backend_service/app.py: the Flask relay whose single handler,  *)
(* refact_chat, validates a JSON request, forwards it in one POST to the   *)
(* Refact completion server and reshapes the upstream reply.               *)
(*                                                                         *)
(* JSON / Python values are tagged records [t, s, n]:                      *)
(*   t = "absent"  the key is not in the dict                              *)
(*   t = "null"    None                                                    *)
(*   t = "str"     a string, held in s                                     *)
(*   t = "int"     an integer, held in n                                   *)
(*   t = "float"   a float with one decimal digit, n holds the tenths      *)
(*   t = "bool"    a boolean, n is 1 for True                              *)
(***************************************************************************)
EXTENDS Integers, Sequences, FiniteSets, TLC

VARIABLES
    REFACT_SERVER_URL,  \* module global, line 7 (a sequence of text chunks)
    REFACT_API_KEY,     \* module global, line 8
    pc,                 \* where refact_chat stands: "idle", "awaiting", "replied"
    request,            \* the inbound HTTP request being handled
    prompt,             \* local `prompt` of refact_chat
    requestsBound,      \* whether the local name `requests` is bound (line 59 ran)
    outbound,           \* the POST handed to requests.post for this request
    upstream,           \* what the upstream call produced
    reply,              \* the HTTP reply of the relay
    posts,              \* number of upstream POSTs issued for this request
    served              \* number of inbound requests taken so far

vars == <<REFACT_SERVER_URL, REFACT_API_KEY, pc, request, prompt, requestsBound,
          outbound, upstream, reply, posts, served>>

config == <<REFACT_SERVER_URL, REFACT_API_KEY>>

\* Number of inbound requests one run of the model takes.
MaxRequests == 2

----------------------------------------------------------------------------
(* Values                                                                  *)

Absent == [t |-> "absent", s |-> "", n |-> 0]
JNull == [t |-> "null", s |-> "", n |-> 0]
JStr(x) == [t |-> "str", s |-> x, n |-> 0]
JInt(k) == [t |-> "int", s |-> "", n |-> k]
JFloat(tenths) == [t |-> "float", s |-> "", n |-> tenths]
JTrue == [t |-> "bool", s |-> "", n |-> 1]

\* Python truthiness of a scalar, as `not data`, `not prompt`, `if REFACT_API_KEY`
\* and `not completion_text` use it.
Truthy(v) ==
    CASE v.t = "str" -> v.s # ""
      [] v.t = "int" -> v.n # 0
      [] v.t = "float" -> v.n # 0
      [] OTHER -> FALSE

\* dict.get(key): None when the key is missing.
Get(d, k) == IF d[k].t = "absent" THEN JNull ELSE d[k]

\* dict.get(key, default): the default only when the key is missing.
GetDefault(d, k, default) == IF d[k].t = "absent" THEN default ELSE d[k]

----------------------------------------------------------------------------
(* Configuration and defaults                                              *)

DefaultServerUrl == <<"http://localhost:8008">>
REFACT_COMPLETION_ENDPOINT == "/v1/completions"
DefaultModel == "smallcloud/Refact-1_6B-fim"
DefaultMaxTokens == 200
DefaultTemperatureTenths == 7
PostTimeout == 60

\* The values os.environ can give the two globals at import time.
ServerUrls == {DefaultServerUrl, <<"http://refact:8008", "/", "/">>}
ApiKeys == {JNull, JStr(""), JStr("sk-1")}

\* str.rstrip('/') on a URL held as chunks, "/" being a chunk of its own.
RECURSIVE Rstrip(_)
Rstrip(u) ==
    IF Len(u) > 0 /\ u[Len(u)] = "/" THEN Rstrip(SubSeq(u, 1, Len(u) - 1)) ELSE u

full_refact_url(url) == Rstrip(url) \o <<REFACT_COMPLETION_ENDPOINT>>

----------------------------------------------------------------------------
(* Inbound requests                                                        *)

Prompts == {Absent, JNull, JStr(""), JStr("hello"), JInt(5)}
Models == {Absent, JNull, JStr("my-model")}
MaxTokensVals == {Absent, JInt(50)}
Temperatures == {Absent, JFloat(2)}

\* What the body of a POST to /api/refact/chat can be:
\*   "absent"     no JSON body: get_json() gives None
\*   "malformed"  a body that is not JSON: get_json() raises BadRequest
\*   "array"      a JSON array of `len` elements
\*   "object"     a JSON object; `extra` tells whether it has keys besides the four
EmptyFields == [prompt |-> Absent, model |-> Absent, max_tokens |-> Absent,
                temperature |-> Absent]

Objects ==
    {[kind |-> "object", len |-> 0, extra |-> FALSE,
      fields |-> [prompt |-> p, model |-> m, max_tokens |-> k, temperature |-> t]] :
        p \in Prompts, m \in Models, k \in MaxTokensVals, t \in Temperatures} \cup
    {[kind |-> "object", len |-> 0, extra |-> TRUE,
      fields |-> [EmptyFields EXCEPT !.prompt = p]] : p \in Prompts}

Requests ==
    Objects \cup
    {[kind |-> k, len |-> 0, extra |-> FALSE, fields |-> EmptyFields] :
        k \in {"absent", "malformed"}} \cup
    {[kind |-> "array", len |-> l, extra |-> FALSE, fields |-> EmptyFields] :
        l \in {0, 1}}

NoRequest == [kind |-> "none", len |-> 0, extra |-> FALSE, fields |-> EmptyFields]

\* The handler without its `if not data` check.
DataFalsy_Never(r) == FALSE

\* `not data` for the value of request.get_json().
DataFalsy(r) ==
    CASE r.kind = "absent" -> TRUE
      [] r.kind = "array" -> r.len = 0
      [] r.kind = "object" ->
            ~r.extra /\ \A k \in DOMAIN r.fields : r.fields[k].t = "absent"
      [] OTHER -> FALSE

----------------------------------------------------------------------------
(* Upstream bodies: the value of response.json()                           *)

Texts == {Absent, JNull, JStr(""), JStr("hi")}
Contents == {Absent, JNull, JStr(""), JStr("yo")}

\* choices[0]["message"]: missing, a dict with or without `content`, or a
\* value that is no dict.
Messages ==
    {[t |-> k, content |-> Absent] : k \in {"absent", "null", "str"}} \cup
    {[t |-> "dict", content |-> c] : c \in Contents}

NoMessage == [t |-> "absent", content |-> Absent]

\* An element of `choices`: a dict with optional `text` and `message`, or a
\* value that is no dict.
ChoiceItems ==
    {[t |-> k, text |-> Absent, message |-> NoMessage] : k \in {"null", "str"}} \cup
    {[t |-> "dict", text |-> x, message |-> m] : x \in Texts, m \in Messages}

SecondChoice == [t |-> "dict", text |-> JStr("second"), message |-> NoMessage]

\* The value under "choices": missing, a list, or a value of another type
\* (n is the length of a string or the number of keys of a dict).
ChoicesVals ==
    {[t |-> k, n |-> 0, items |-> <<>>] : k \in {"absent", "null", "int"}} \cup
    {[t |-> k, n |-> l, items |-> <<>>] : k \in {"str", "dict"}, l \in {0, 1}} \cup
    {[t |-> "list", n |-> 0, items |-> <<>>]} \cup
    {[t |-> "list", n |-> 1, items |-> <<c>>] : c \in ChoiceItems} \cup
    {[t |-> "list", n |-> 2, items |-> <<c, SecondChoice>>] :
        c \in {d \in ChoiceItems : d.t = "dict" /\ d.message.t = "absent"}}

NoChoices == [t |-> "absent", n |-> 0, items |-> <<>>]

\* A JSON body: an object with optional `id` and `choices`, or a JSON value
\* of another type; `has` tells whether an array has the element "choices",
\* or a string the substring "choices".
Bodies ==
    {[shape |-> "object", has |-> FALSE, id |-> JStr("cmpl-1"), choices |-> c] :
        c \in ChoicesVals} \cup
    {[shape |-> "object", has |-> FALSE, id |-> Absent, choices |-> c] :
        c \in {d \in ChoicesVals : d.n = 0}} \cup
    {[shape |-> k, has |-> h, id |-> Absent, choices |-> NoChoices] :
        k \in {"array", "string"}, h \in BOOLEAN} \cup
    {[shape |-> k, has |-> FALSE, id |-> Absent, choices |-> NoChoices] :
        k \in {"int", "null"}}

NoBody == [shape |-> "none", has |-> FALSE, id |-> Absent, choices |-> NoChoices]

----------------------------------------------------------------------------
(* Replies of the relay                                                    *)

NoReply == [status |-> 0, kind |-> "none", error |-> Absent, success |-> Absent,
            prompt |-> Absent, response |-> Absent, raw |-> NoBody]

\* jsonify({"error": msg}), status
ErrorReply(status, msg) ==
    [status |-> status, kind |-> "json", error |-> JStr(msg), success |-> Absent,
     prompt |-> Absent, response |-> Absent, raw |-> NoBody]

\* An exception that leaves refact_chat: Flask answers 500 with its own
\* error page, which is not the handler's JSON body.
UnhandledReply ==
    [status |-> 500, kind |-> "html", error |-> Absent, success |-> Absent,
     prompt |-> Absent, response |-> Absent, raw |-> NoBody]

----------------------------------------------------------------------------
(* str(refact_response_data): Python's repr of the parsed body             *)

ReprVal(v) ==
    CASE v.t = "str" -> "'" \o v.s \o "'"
      [] v.t = "null" -> "None"
      [] OTHER -> ""

\* 'key': value pairs of a dict, in insertion order, joined by ", ".
Join(a, b) == IF a = "" THEN b ELSE IF b = "" THEN a ELSE a \o ", " \o b
Pair(k, r) == IF r = "" THEN "" ELSE "'" \o k \o "': " \o r

ReprMessage(m) ==
    CASE m.t = "absent" -> ""
      [] m.t = "null" -> "None"
      [] m.t = "str" -> "'m'"
      [] OTHER -> "{" \o Pair("content", ReprVal(m.content)) \o "}"

ReprChoice(c) ==
    CASE c.t = "null" -> "None"
      [] c.t = "str" -> "'c'"
      [] OTHER -> "{" \o Join(Pair("text", ReprVal(c.text)),
                              Pair("message", ReprMessage(c.message))) \o "}"

RECURSIVE ReprItems(_)
ReprItems(items) ==
    IF Len(items) = 0 THEN ""
    ELSE Join(ReprChoice(Head(items)), ReprItems(Tail(items)))

ReprChoices(c) ==
    CASE c.t = "absent" -> ""
      [] c.t = "null" -> "None"
      [] c.t = "int" -> "3"
      [] c.t = "str" -> IF c.n = 0 THEN "''" ELSE "'c'"
      [] c.t = "dict" -> IF c.n = 0 THEN "{}" ELSE "{'k': 'v'}"
      [] OTHER -> "[" \o ReprItems(c.items) \o "]"

PyStr(b) ==
    CASE b.shape = "object" ->
            "{" \o Join(Pair("id", ReprVal(b.id)),
                        Pair("choices", ReprChoices(b.choices))) \o "}"
      [] b.shape = "array" -> IF b.has THEN "['choices']" ELSE "[]"
      [] b.shape = "string" -> IF b.has THEN "no choices" ELSE "ok"
      [] b.shape = "int" -> "3"
      [] OTHER -> "None"

----------------------------------------------------------------------------
(* Exceptions and the two except clauses                                   *)

\* An exception: whether it is a requests.exceptions.RequestException, and str(e).
RequestException(msg) == [isRequestException |-> TRUE, msg |-> msg]
OtherException(msg) == [isRequestException |-> FALSE, msg |-> msg]
NoException == [isRequestException |-> FALSE, msg |-> ""]

\* Lines 93-98. `requests` is a local name of refact_chat, bound by the import
\* at line 59: when the try body raises before that line, evaluating
\* `requests.exceptions.RequestException` in the first except clause raises
\* UnboundLocalError, which leaves the handler.
Handle(e, bound) ==
    IF ~bound THEN UnhandledReply
    ELSE IF e.isRequestException
         THEN ErrorReply(503, "Could not connect to Refact server: " \o e.msg)
         ELSE ErrorReply(500, "An unexpected error occurred: " \o e.msg)

----------------------------------------------------------------------------
(* Lines 22-60: validation and the outbound call                           *)

\* `if prompt is None` in place of `if not prompt`.
PromptMissing_NoneOnly(p) == p.t = "null"

\* `if not prompt`
PromptMissing(p) == ~Truthy(p)

\* `if REFACT_API_KEY is not None` in place of `if REFACT_API_KEY`.
headers_IsNotNone(key) ==
    IF key.t # "null"
    THEN [ContentType |-> "application/json", Authorization |-> "Bearer " \o key.s]
    ELSE [ContentType |-> "application/json"]

\* Lines 37-41
headers(key) ==
    IF Truthy(key)
    THEN [ContentType |-> "application/json", Authorization |-> "Bearer " \o key.s]
    ELSE [ContentType |-> "application/json"]

\* The payload with the default of the comment at line 32 (150) for max_tokens.
refact_payload_OtherDefault(data, p) ==
    [model |-> GetDefault(data, "model", JStr(DefaultModel)),
     prompt |-> p,
     max_tokens |-> GetDefault(data, "max_tokens", JInt(150)),
     temperature |-> GetDefault(data, "temperature", JFloat(DefaultTemperatureTenths))]

\* Lines 46-54
refact_payload(data, p) ==
    [model |-> GetDefault(data, "model", JStr(DefaultModel)),
     prompt |-> p,
     max_tokens |-> GetDefault(data, "max_tokens", JInt(DefaultMaxTokens)),
     temperature |-> GetDefault(data, "temperature", JFloat(DefaultTemperatureTenths))]

NoPost == [sent |-> FALSE]

\* requests.post(full_refact_url, json=refact_payload, headers=headers, timeout=60)
Post(url, key, data, p) ==
    [sent |-> TRUE, url |-> full_refact_url(url), json |-> refact_payload(data, p),
     headers |-> headers(key), timeout |-> PostTimeout]

NoUpstream == [kind |-> "none", status |-> 0, isJson |-> FALSE, body |-> NoBody,
               exc |-> NoException]

Finish(r) ==
    /\ pc' = "replied"
    /\ reply' = r

\* The handler up to line 35 or to the exception: no outbound call is made.
Reject(r) ==
    /\ Finish(r)
    /\ UNCHANGED <<prompt, requestsBound, outbound, posts>>

\* A POST to /api/refact/chat arrives; the handler runs until it returns,
\* raises, or blocks in requests.post.
RefactChat(r) ==
    /\ pc = "idle"
    /\ served < MaxRequests
    /\ served' = served + 1
    /\ request' = r
    /\ UNCHANGED <<config, upstream>>
    /\ \/ /\ r.kind = "malformed"
          /\ Reject(Handle(OtherException("400 Bad Request"), requestsBound))
       \/ /\ r.kind # "malformed"
          /\ DataFalsy(r)
          /\ Reject(ErrorReply(400, "No input data provided"))
       \/ /\ r.kind \in {"absent", "array"}
          /\ ~DataFalsy(r)
          /\ Reject(Handle(OtherException("object has no attribute 'get'"),
                           requestsBound))
       \/ /\ r.kind = "object"
          /\ ~DataFalsy(r)
          /\ PromptMissing(Get(r.fields, "prompt"))
          /\ prompt' = Get(r.fields, "prompt")
          /\ Finish(ErrorReply(400, "Prompt is required"))
          /\ UNCHANGED <<requestsBound, outbound, posts>>
       \/ /\ r.kind = "object"
          /\ ~DataFalsy(r)
          /\ ~PromptMissing(Get(r.fields, "prompt"))
          /\ prompt' = Get(r.fields, "prompt")
          /\ requestsBound' = TRUE
          /\ outbound' = Post(REFACT_SERVER_URL, REFACT_API_KEY, r.fields,
                              Get(r.fields, "prompt"))
          /\ posts' = posts + 1
          /\ pc' = "awaiting"
          /\ UNCHANGED reply

----------------------------------------------------------------------------
(* Lines 60-91: the upstream outcome and the reply                         *)

Raise(msg) == [raised |-> TRUE, exc |-> OtherException(msg), text |-> Absent]
Ok(text) == [raised |-> FALSE, exc |-> NoException, text |-> text]

\* `"choices" in refact_response_data` for a body that supports `in`.
InBody(b) == IF b.shape = "object" THEN b.choices.t # "absent" ELSE b.has

\* Line 79 without `not completion_text`: the message wins whenever present.
MessageFallback_PreferMessage(first, text) ==
    IF first.message.t # "absent"
    THEN IF first.message.t = "dict"
         THEN Ok(Get(first.message, "content"))
         ELSE Raise("object has no attribute 'get'")
    ELSE Ok(text)

\* Lines 79-80 left out: only `text` is read.
MessageFallback_TextOnly(first, text) == Ok(text)

\* Lines 79-80, for a first element that is a dict.
MessageFallback(first, text) ==
    IF ~Truthy(text) /\ first.message.t # "absent"
    THEN IF first.message.t = "dict"
         THEN Ok(Get(first.message, "content"))
         ELSE Raise("object has no attribute 'get'")
    ELSE Ok(text)

\* Lines 77-83: completion_text, or the exception the extraction raises.
Extract(b) ==
    IF b.shape \in {"int", "null"} THEN Raise("argument is not iterable")
    ELSE IF ~InBody(b) THEN Ok(JStr(PyStr(b)))
    ELSE IF b.shape = "array" THEN Raise("list indices must be integers or slices, not str")
    ELSE IF b.shape = "string" THEN Raise("string indices must be integers")
    ELSE IF b.choices.t \in {"null", "int"} THEN Raise("object has no len()")
    ELSE IF b.choices.n = 0 THEN Ok(JStr(PyStr(b)))
    ELSE IF b.choices.t = "dict" THEN Raise("0")
    ELSE IF b.choices.t = "str" THEN Raise("'str' object has no attribute 'get'")
    ELSE IF b.choices.items[1].t # "dict" THEN Raise("object has no attribute 'get'")
    ELSE MessageFallback(b.choices.items[1], Get(b.choices.items[1], "text"))

\* The reply with the extracted text alone, the raw upstream body left out.
SuccessReply_NoRaw(p, text, b) ==
    [status |-> 200, kind |-> "json", error |-> Absent, success |-> JTrue,
     prompt |-> p, response |-> IF text.t = "absent" THEN JNull ELSE text,
     raw |-> NoBody]

\* Lines 86-91. None serialises as null.
SuccessReply(p, text, b) ==
    [status |-> 200, kind |-> "json", error |-> Absent, success |-> JTrue,
     prompt |-> p, response |-> IF text.t = "absent" THEN JNull ELSE text, raw |-> b]

\* raise_for_status that raises for 5xx alone.
RaisesForStatus_ServerOnly(status) == 500 <= status /\ status < 600

\* response.raise_for_status(): raises HTTPError for 4xx and 5xx (line 61).
RaisesForStatus(status) == 400 <= status /\ status < 600

Statuses == {200, 300, 404, 500}

\* requests.post raises: connection failure or timeout.
PostFailures ==
    {RequestException("Connection refused"), RequestException("Read timed out")}

\* Line 60 raises; the first except clause answers.
PostRaises(e) ==
    /\ pc = "awaiting"
    /\ upstream' = [NoUpstream EXCEPT !.kind = "raised", !.exc = e]
    /\ Finish(Handle(e, requestsBound))
    /\ UNCHANGED <<config, request, prompt, requestsBound, outbound, posts, served>>

\* Line 60 returns a response of the given status; `isJson` tells whether its
\* body parses as JSON, `b` is the parsed body. response.json() of a body
\* that is not JSON raises an exception that is a RequestException in some
\* releases of requests and a plain ValueError in others (`isReqExc`).
PostReturns(status, isJson, b, isReqExc) ==
    /\ pc = "awaiting"
    /\ upstream' = [NoUpstream EXCEPT !.kind = "response", !.status = status,
                                      !.isJson = isJson, !.body = b]
    /\ UNCHANGED <<config, request, prompt, requestsBound, outbound, posts, served>>
    /\ \/ /\ RaisesForStatus(status)
          /\ b = NoBody /\ ~isJson /\ isReqExc
          /\ Finish(Handle(RequestException("HTTP error for url"), requestsBound))
       \/ /\ ~RaisesForStatus(status)
          /\ ~isJson /\ b = NoBody
          /\ Finish(Handle([isRequestException |-> isReqExc,
                            msg |-> "Expecting value: line 1 column 1 (char 0)"],
                           requestsBound))
       \/ /\ ~RaisesForStatus(status)
          /\ isJson /\ b \in Bodies /\ isReqExc
          /\ Extract(b).raised
          /\ Finish(Handle(Extract(b).exc, requestsBound))
       \/ /\ ~RaisesForStatus(status)
          /\ isJson /\ b \in Bodies /\ isReqExc
          /\ ~Extract(b).raised
          /\ Finish(SuccessReply(prompt, Extract(b).text, b))

----------------------------------------------------------------------------
(* The other route, the client, and the specification                      *)

HelloText == "Backend service for Refact is running!"

\* GET /: lines 16-18. It touches nothing the chat handler uses.
Hello ==
    /\ pc = "idle"
    /\ served < MaxRequests
    /\ served' = served + 1
    /\ pc' = "replied"
    /\ reply' = [NoReply EXCEPT !.status = 200, !.kind = "text",
                                !.response = JStr(HelloText)]
    /\ UNCHANGED <<config, request, prompt, requestsBound, outbound, upstream, posts>>

\* The reply is on the wire; the locals of the call are gone.
Deliver ==
    /\ pc = "replied"
    /\ pc' = "idle"
    /\ request' = NoRequest
    /\ prompt' = Absent
    /\ requestsBound' = FALSE
    /\ outbound' = NoPost
    /\ upstream' = NoUpstream
    /\ reply' = NoReply
    /\ posts' = 0
    /\ UNCHANGED <<config, served>>

Init ==
    /\ REFACT_SERVER_URL \in ServerUrls
    /\ REFACT_API_KEY \in ApiKeys
    /\ pc = "idle"
    /\ request = NoRequest
    /\ prompt = Absent
    /\ requestsBound = FALSE
    /\ outbound = NoPost
    /\ upstream = NoUpstream
    /\ reply = NoReply
    /\ posts = 0
    /\ served = 0

Next ==
    \/ \E r \in Requests : RefactChat(r)
    \/ \E e \in PostFailures : PostRaises(e)
    \/ \E status \in Statuses, isJson \in BOOLEAN, b \in Bodies \cup {NoBody},
          isReqExc \in BOOLEAN : PostReturns(status, isJson, b, isReqExc)
    \/ Hello
    \/ Deliver

Spec == Init /\ [][Next]_vars

----------------------------------------------------------------------------
(* Properties                                                              *)

Replied == pc = "replied" /\ request.kind # "none"

\* The handler's own JSON error body: {"error": <string>}.
JsonError(r) == r.kind = "json" /\ r.error.t = "str"

Validated(r) ==
    /\ r.kind = "object"
    /\ \/ r.fields.prompt.t = "str" /\ r.fields.prompt.s # ""
       \/ r.fields.prompt.t = "int" /\ r.fields.prompt.n # 0

SuppliedOrDefault(field, default) ==
    outbound.json[field] =
        IF request.fields[field].t = "absent" THEN default ELSE request.fields[field]

\* C4: for a request with a non-empty prompt the outbound payload carries that
\* prompt, and for model, max_tokens and temperature the caller's value when
\* the key was supplied, else "smallcloud/Refact-1_6B-fim", 200 and 0.7.
C4_PayloadMergesDefaults ==
    (pc # "idle" /\ Validated(request))
        => /\ outbound.sent
           /\ outbound.json.prompt = request.fields.prompt
           /\ SuppliedOrDefault("model", JStr("smallcloud/Refact-1_6B-fim"))
           /\ SuppliedOrDefault("max_tokens", JInt(200))
           /\ SuppliedOrDefault("temperature", JFloat(7))

C4_Witness ==
    /\ pc = "awaiting"
    /\ request.fields = [EmptyFields EXCEPT !.prompt = JStr("hello")]
    /\ outbound.json = [model |-> JStr("smallcloud/Refact-1_6B-fim"),
                        prompt |-> JStr("hello"), max_tokens |-> JInt(200),
                        temperature |-> JFloat(7)]

KeyConfigured == REFACT_API_KEY.t = "str" /\ REFACT_API_KEY.s # ""

\* C10: the upstream POST carries `Authorization: Bearer <key>` exactly when
\* REFACT_API_KEY is set and non-empty, with <key> the configured key, and
\* no step changes the configured server URL or API key.
C10_BearerIffKeyConfigured ==
    /\ [](outbound.sent =>
            /\ ("Authorization" \in DOMAIN outbound.headers) <=> KeyConfigured
            /\ KeyConfigured =>
                   outbound.headers.Authorization = "Bearer " \o REFACT_API_KEY.s)
    /\ [][config' = config]_vars

C10_Witness ==
    /\ pc = "replied"
    /\ outbound.sent
    /\ REFACT_API_KEY = JStr("sk-1")
    /\ outbound.headers.Authorization = "Bearer sk-1"

\* C9: a request causes at most one upstream POST: exactly one when it passes
\* validation and none when it is answered 400; no failure reply (503 or 500)
\* is followed by another POST for the request; and when a POST was issued the
\* reply is sent only after the POST has returned or raised.
C9_SinglePost ==
    /\ [](/\ posts <= 1
          /\ pc # "idle" => (posts = 1 <=> Validated(request))
          /\ reply.status = 400 => posts = 0
          /\ (pc = "replied" /\ posts = 1) => upstream.kind \in {"raised", "response"}
          /\ pc = "awaiting" => (reply = NoReply /\ upstream.kind = "none"))
    /\ [][/\ posts' > posts => (pc = "idle" /\ posts = 0)
          /\ reply.status \in {500, 503} => (posts' <= posts /\ outbound' \in {outbound, NoPost})]_vars

C9_Witness ==
    /\ pc = "replied"
    /\ posts = 1
    /\ reply.status = 503
    /\ upstream.kind = "raised"

----------------------------------------------------------------------------
(* Properties of the upstream outcome                                      *)

Is2xx(status) == 200 <= status /\ status < 300

\* The upstream call succeeded: a 2xx response with a JSON body.
UpstreamOk ==
    /\ pc = "replied"
    /\ upstream.kind = "response"
    /\ Is2xx(upstream.status)
    /\ upstream.isJson

\* The upstream body is an object whose `choices` is a non-empty list with an
\* object as first element.
HasFirstChoice ==
    /\ upstream.body.shape = "object"
    /\ upstream.body.choices.t = "list"
    /\ upstream.body.choices.n > 0
    /\ upstream.body.choices.items[1].t = "dict"

FirstChoice == upstream.body.choices.items[1]

\* choices[0].text is there (the key is present and not null).
HasText == HasFirstChoice /\ FirstChoice.text.t \notin {"absent", "null"}

\* choices[0].message.content is there.
HasContent ==
    /\ HasFirstChoice
    /\ FirstChoice.message.t = "dict"
    /\ FirstChoice.message.content.t \notin {"absent", "null"}

\* C2: after a successful upstream call whose body has neither choices[0].text
\* nor choices[0].message.content, also when `choices` is non-empty and its
\* first element carries neither, the `response` of the 200 reply is the
\* stringified upstream body.
C2_NeitherFieldGivesStringifiedBody ==
    (UpstreamOk /\ reply.status = 200 /\ ~HasText /\ ~HasContent)
        => reply.response = JStr(PyStr(upstream.body))

\* C3: an exception raised in the handler that is no upstream connectivity or
\* HTTP error (a JSON body that is not an object, before the call; a malformed
\* `choices` after it) is answered 500 with a JSON body whose `error` field
\* holds the exception message.
C3_OtherExceptionIsJson500 ==
    (Replied /\ (\/ request.kind = "array" /\ request.len > 0
                 \/ UpstreamOk /\ upstream.body.shape = "object"
                               /\ upstream.body.choices.t = "null"))
        => (reply.status = 500 /\ JsonError(reply))

\* C5 as stated: a connection failure, a timeout or any non-2xx status of the
\* upstream call is answered 503 with the failure reason in `error`, never
\* 200. Stated for responses whose body is JSON, where the status is the
\* only thing that can have failed.
C5_Non2xxIs503 ==
    (pc = "replied" /\ (\/ upstream.kind = "raised"
                        \/ /\ upstream.kind = "response"
                           /\ ~Is2xx(upstream.status)
                           /\ upstream.isJson))
        => (reply.status = 503 /\ JsonError(reply))

\* C5: a connection failure, a timeout or a 4xx/5xx status of the upstream
\* call is answered 503, never 200, with a JSON body whose `error` field is
\* "Could not connect to Refact server: " followed by the failure reason.
C5_FailureIs503 ==
    /\ (pc = "replied" /\ upstream.kind = "raised")
           => reply = ErrorReply(503, "Could not connect to Refact server: "
                                          \o upstream.exc.msg)
    /\ (pc = "replied" /\ upstream.kind = "response"
            /\ upstream.status >= 400 /\ upstream.status <= 599)
           => /\ reply.status = 503
              /\ JsonError(reply)
              /\ reply.error.s = "Could not connect to Refact server: "
                                     \o "HTTP error for url"

C5_Witness ==
    /\ pc = "replied"
    /\ upstream.kind = "response"
    /\ upstream.status = 404
    /\ reply.status = 503

\* C6 as stated: when choices[0] has a `text` value, empty or not, `response`
\* is that text, whether or not choices[0] also has a `message`.
C6_AnyTextIsResponse ==
    (UpstreamOk /\ HasText /\ reply.status = 200) => reply.response = FirstChoice.text

\* C6: when the upstream body has a non-empty `choices` list whose first
\* element has a non-empty `text`, `response` of the 200 reply is that text,
\* also when the element carries a `message`.
C6_TextIsResponse ==
    (UpstreamOk /\ HasText /\ FirstChoice.text.s # "")
        => (reply.status = 200 /\ reply.response = FirstChoice.text)

C6_Witness ==
    /\ UpstreamOk
    /\ HasFirstChoice
    /\ FirstChoice.text = JStr("hi")
    /\ FirstChoice.message.t = "dict"
    /\ FirstChoice.message.content = JStr("yo")
    /\ reply.response = JStr("hi")

\* C7: when the first element of a non-empty `choices` list has no `text` but
\* has message.content, `response` of the 200 reply is message.content.
C7_ContentIsResponse ==
    (UpstreamOk /\ HasFirstChoice /\ ~HasText /\ HasContent)
        => (reply.status = 200 /\ reply.response = FirstChoice.message.content)

C7_Witness ==
    /\ UpstreamOk
    /\ HasFirstChoice
    /\ FirstChoice.text.t = "absent"
    /\ FirstChoice.message.content = JStr("yo")
    /\ reply.response = JStr("yo")

SuccessFields ==
    /\ reply.status = 200
    /\ reply.kind = "json"
    /\ reply.success = JTrue
    /\ reply.prompt = request.fields.prompt
    /\ reply.raw = upstream.body

Extractable(b) ==
    \/ b.shape \in {"array", "string"} /\ ~b.has
    \/ b.shape = "object" /\ b.choices.t = "absent"
    \/ b.shape = "object" /\ b.choices.t \in {"list", "str", "dict"} /\ b.choices.n = 0
    \/ /\ b.shape = "object" /\ b.choices.t = "list" /\ b.choices.n > 0
       /\ b.choices.items[1].t = "dict"
       /\ \/ b.choices.items[1].message.t \in {"absent", "dict"}
          \/ b.choices.items[1].text.t = "str" /\ b.choices.items[1].text.s # ""

====
